---- MODULE Spec2Model ----
(***************************************************************************)
(* Model of PowerwallMonitor.run() and the methods it calls                *)
(* (src/powerwall_monitor.py).  One action per call that leaves the        *)
(* module: powerwall.power(), powerwall.level(), write_api.write(), each   *)
(* print() and each time.sleep().  Every such call either returns, raises  *)
(* an Exception subclass ("raise") or is interrupted by KeyboardInterrupt  *)
(* ("interrupt").  A KeyboardInterrupt can also be delivered between two   *)
(* calls: before a print it is the interrupt outcome of that print (which  *)
(* then prints nothing); before a collaborator call or a sleep, and after  *)
(* a call has returned and before its result is rounded, returned and      *)
(* assigned, it is the action InterruptBetweenCalls; at the head of the    *)
(* loop, outside the try, it is LoopHead; and after the print of the       *)
(* KeyboardInterrupt clause, before `break`, it is an outcome of LogStop.  *)
(* Source readings are fixed-point numbers in tenths.                      *)
(***************************************************************************)
EXTENDS Integers, Sequences, FiniteSets, TLC

VARIABLES
    pc,             \* position of the single thread inside run()
    config,         \* self.config: None, or what the loaded file provides
    measurements,   \* run()'s local `measurements` (None or <<dict>>)
    battery_level,  \* write_to_influxdb()'s local `battery_level`
    escaped,        \* what left run(): "none", "raise" or "interrupt"
    \* ---- history of the current cycle (observations, not program state)
    cycle,          \* number of power polls begun so far
    rawPower,       \* what powerwall.power() returned this cycle
    rawLevel,       \* what powerwall.level() returned this cycle
    powerRes,       \* "none" | "ok" | "fail" : outcome of the power poll
    levelRes,       \* "none" | "ok" | "fail" : outcome of the level poll
    writeRes,       \* "none" | "ok" | "fail" : outcome of write_api.write
    writes,         \* records handed to write_api.write this cycle
    log,            \* lines printed this cycle
    sleepCalls,     \* time.sleep calls begun since the last power poll
    sleepsDone,     \* time.sleep calls that returned since the last poll
    extraFault,     \* a print() or time.sleep() raised an Exception
    cancelledAt,    \* where the first KeyboardInterrupt was delivered
    calls,          \* collaborator calls begun this cycle, in order
    \* ---- history across cycles
    unwritten,      \* successful power polls minus write_api.write calls
    prevWriteFailed,\* the previous cycle's write_api.write raised
    initSteps,      \* constructor steps begun, in order
    initFault       \* the constructor step that failed, or "none"

\* what only the collaborator calls and the constructor change
crossVars == <<config, calls, unwritten, prevWriteFailed, initSteps, initFault>>

vars == <<pc, config, measurements, battery_level, escaped, cycle, rawPower,
          rawLevel, powerRes, levelRes, writeRes, writes, log, sleepCalls,
          sleepsDone, extraFault, cancelledAt, calls, unwritten,
          prevWriteFailed, initSteps, initFault>>

(***************************************************************************)
(* Bounds and input domains                                                *)
(***************************************************************************)
MaxCycles == 3

MaxDefects == 1

\* normalization is checked for every reading within MaxTenth tenths of zero
MaxTenth == 12

\* readings in tenths of a unit: -300.5 and 0.0
PowerTenths == {0 - 3005, 0}

\* battery percentages in tenths: -1.5, 0.0, 100.6
LevelTenths == {0 - 15, 0, 1006}

Num(v) == <<"num", v>>

Missing == <<"missing">>

NotNum == <<"notnum">>

IsNum(r) == r[1] = "num"

RawKeys == {"site", "battery", "solar", "load"}

MFields == {"grid", "battery", "solar", "home"}

RawPowerVals == {Num(v) : v \in PowerTenths} \cup {Missing, NotNum}

RawLevelVals == {Num(v) : v \in LevelTenths} \cup {NotNum}

\* responses of powerwall.power(): numeric responses (site and solar share
\* one value, battery and load are 0.0), and responses in which up to
\* MaxDefects of the four values are all absent or all not a number (the
\* remaining values are then 0.0)
PowerReadings ==
    {p \in [RawKeys -> RawPowerVals] :
        LET bad == {k \in RawKeys : ~IsNum(p[k])}
        IN  /\ Cardinality(bad) <= MaxDefects
            /\ bad = {} => (p["site"] = p["solar"] /\ p["battery"] = p["load"]
                            /\ p["load"] = Num(0))
            /\ bad # {} => \A k \in RawKeys \ bad : p[k] = Num(0)
            /\ \A j, k \in bad : p[j] = p[k]}

Outcomes == {"ok", "raise", "interrupt"}

\* Python's None; a present value x is <<x>>
None == <<>>

Some(x) == <<x>>

(***************************************************************************)
(* Pure helpers                                                            *)
(***************************************************************************)
\* round(): nearest integer, ties to the even neighbour (argument in tenths)
RoundTruncate(t) == IF t >= 0 THEN t \div 10 ELSE 0 - ((0 - t) \div 10)

Round(t) ==
    LET fl == t \div 10
        r  == t % 10
    IN  IF r < 5 THEN fl
        ELSE IF r > 5 THEN fl + 1
        ELSE IF fl % 2 = 0 THEN fl ELSE fl + 1

\* which source key feeds which Measurement field
KeyOf == [grid |-> "site", battery |-> "battery", solar |-> "solar", home |-> "load"]

\* the dict literal of get_measurements: every subscript and every round()
\* must succeed, otherwise the expression raises
BuildMeasurementPartial(power) ==
    <<"ok", [f \in {g \in MFields : IsNum(power[KeyOf[g]])} |-> Round(power[KeyOf[f]][2])]>>

BuildMeasurement(power) ==
    IF \A k \in RawKeys : IsNum(power[k])
    THEN <<"ok", [f \in MFields |-> Round(power[KeyOf[f]][2])]>>
    ELSE <<"raise">>

\* truth value of `measurements` in `if measurements:` / `if not measurements:`
Truthy(m) == m # None /\ DOMAIN m[1] # {}

PowerPoint(m) == [series |-> "power", fields |-> m]

BatteryPoint(l) == [series |-> "battery", fields |-> [level |-> l]]

\* the `record` argument of write_api.write, as the sequence of points it
\* holds: the list [power_point, battery_point], or the bare power_point
BuildRecordPowerOnly(m, lvl) == <<PowerPoint(m[1])>>

BuildRecordTruthyLevel(m, lvl) ==
    IF lvl # None /\ lvl[1] # 0
    THEN <<PowerPoint(m[1]), BatteryPoint(lvl[1])>>
    ELSE <<PowerPoint(m[1])>>

BuildRecord(m, lvl) ==
    IF lvl # None
    THEN <<PowerPoint(m[1]), BatteryPoint(lvl[1])>>
    ELSE <<PowerPoint(m[1])>>

(***************************************************************************)
(* Exception dispatch                                                      *)
(***************************************************************************)
\* `except Exception` catches Exception subclasses, not KeyboardInterrupt
Catches(o) == o = "raise"

\* the except clauses of run(), for an exception raised inside its try body
RunExceptSwallow(o) == "log_error"

RunExcept(o) == IF o = "interrupt" THEN "log_stop" ELSE "log_error"

\* an exception raised inside an except clause of run() leaves run()
HandlerExcept(o) == "raised"

\* except clause of get_measurements
GmExceptFatal(o) == IF Catches(o) THEN "raised" ELSE RunExcept(o)

GmExcept(o) == IF Catches(o) THEN "log_src" ELSE RunExcept(o)

\* except clause of write_to_influxdb
WriteExceptFatal(o) == IF Catches(o) THEN "raised" ELSE RunExcept(o)

WriteExcept(o) == IF Catches(o) THEN "log_sink" ELSE RunExcept(o)

\* except clause of get_battery_level; what it does not catch propagates
\* into the try body of write_to_influxdb
LevelExcept(o) == IF Catches(o) THEN "log_bat" ELSE WriteExcept(o)

\* value get_measurements returns from its except clause
GmExceptReturnZeros == Some([f \in MFields |-> 0])

GmExceptReturnStale == measurements

GmExceptReturn == None

\* entry of write_to_influxdb: the `if not measurements: return` guard
WriteEntry(m) == IF ~Truthy(m) THEN "log_ok" ELSE "level"

\* run(): `if measurements:` ... then time.sleep(interval)
AfterGetMeasurementsNoSleep(m) == IF Truthy(m) THEN WriteEntry(m) ELSE "poll"

AfterGetMeasurementsAlwaysWrite(m) == "level"

AfterGetMeasurements(m) == IF Truthy(m) THEN WriteEntry(m) ELSE "sleep"

\* after write_to_influxdb returns, run() prints the success line
AfterWriteToInfluxdb == "log_ok"

Ended == {"returned", "raised"}

NoteCancel(o) == IF o = "interrupt" /\ cancelledAt = "none" THEN pc ELSE cancelledAt

NoteFault(o) == extraFault \/ o = "raise"

NoteEscape(o, next) == IF next = "raised" THEN o ELSE escaped

(***************************************************************************)
(* Initial state: main() is about to construct the PowerwallMonitor        *)
(***************************************************************************)
Init ==
    /\ pc = "load_config"
    /\ config = None
    /\ calls = <<>>
    /\ unwritten = 0
    /\ prevWriteFailed = FALSE
    /\ initSteps = <<>>
    /\ initFault = "none"
    /\ measurements = None
    /\ battery_level = None
    /\ escaped = "none"
    /\ cycle = 0
    /\ rawPower = None
    /\ rawLevel = None
    /\ powerRes = "none"
    /\ levelRes = "none"
    /\ writeRes = "none"
    /\ writes = <<>>
    /\ log = <<>>
    /\ sleepCalls = 0
    /\ sleepsDone = 0
    /\ extraFault = FALSE
    /\ cancelledAt = "none"

(***************************************************************************)
(* main(): PowerwallMonitor() runs its four construction steps, then run() *)
(***************************************************************************)
\* _load_config: FileNotFoundError unless the file exists; config.read(path)
\* raises when the file cannot be parsed (o is the outcome of that call)
LoadConfigNext(exists, o) ==
    IF ~exists \/ o # "ok" THEN "init_failed" ELSE "init_powerwall"

\* the ConfigParser _load_config returns, as far as the loop depends on it:
\* whether self.config['influxdb']['bucket'] can be read (the constructor
\* reads the powerwall keys and url, token, org, never bucket)
LoadedConfig(bucket) == Some([bucket |-> bucket])

\* evaluating self.config['influxdb']['bucket']: KeyError (or an
\* interpolation error) when the option cannot be read
BucketLookup(cfg) == IF cfg # None /\ cfg[1].bucket THEN "ok" ELSE "raise"

\* _init_powerwall: Exception unless powerwall.is_connected()
InitPowerwallNextUnchecked(o, connected) ==
    IF o # "ok" THEN "init_failed" ELSE "init_influxdb"

InitPowerwallNext(o, connected) ==
    IF o # "ok" \/ ~connected THEN "init_failed" ELSE "init_influxdb"

\* _init_influxdb: any Exception of InfluxDBClient(...) is raised again
InitInfluxdbNext(o) == IF o # "ok" THEN "init_failed" ELSE "init_write_api"

\* self.influx_client.write_api(...), then main() calls monitor.run()
InitWriteApiNext(o) == IF o # "ok" THEN "init_failed" ELSE "start"

LoadConfig ==
    /\ pc = "load_config"
    /\ initSteps' = Append(initSteps, "config")
    /\ \E exists \in BOOLEAN, o \in Outcomes, bucket \in BOOLEAN :
        /\ pc' = LoadConfigNext(exists, o)
        /\ config' = IF pc' = "init_failed" THEN config ELSE LoadedConfig(bucket)
        /\ initFault' = IF pc' = "init_failed" THEN "config" ELSE "none"
        /\ cancelledAt' = IF exists THEN NoteCancel(o) ELSE cancelledAt
    /\ UNCHANGED <<measurements, battery_level, escaped, cycle, rawPower,
                   rawLevel, powerRes, levelRes, writeRes, writes, log,
                   sleepCalls, sleepsDone, extraFault, calls,
                   unwritten, prevWriteFailed>>

InitPowerwall ==
    /\ pc = "init_powerwall"
    /\ initSteps' = Append(initSteps, "powerwall")
    /\ \E o \in Outcomes, connected \in BOOLEAN :
        /\ pc' = InitPowerwallNext(o, connected)
        /\ initFault' = IF o = "ok" /\ connected THEN "none" ELSE "powerwall"
        /\ cancelledAt' = NoteCancel(o)
    /\ UNCHANGED <<measurements, battery_level, escaped, cycle, rawPower,
                   rawLevel, powerRes, levelRes, writeRes, writes, log,
                   sleepCalls, sleepsDone, extraFault, calls, unwritten,
                   prevWriteFailed, config>>

InitInfluxdb ==
    /\ pc = "init_influxdb"
    /\ initSteps' = Append(initSteps, "influxdb")
    /\ \E o \in Outcomes :
        /\ pc' = InitInfluxdbNext(o)
        /\ initFault' = IF o = "ok" THEN "none" ELSE "influxdb"
        /\ cancelledAt' = NoteCancel(o)
    /\ UNCHANGED <<measurements, battery_level, escaped, cycle, rawPower,
                   rawLevel, powerRes, levelRes, writeRes, writes, log,
                   sleepCalls, sleepsDone, extraFault, calls, unwritten,
                   prevWriteFailed, config>>

InitWriteApi ==
    /\ pc = "init_write_api"
    /\ initSteps' = Append(initSteps, "write_api")
    /\ \E o \in Outcomes :
        /\ pc' = InitWriteApiNext(o)
        /\ initFault' = IF o = "ok" THEN "none" ELSE "write_api"
        /\ cancelledAt' = NoteCancel(o)
    /\ UNCHANGED <<measurements, battery_level, escaped, cycle, rawPower,
                   rawLevel, powerRes, levelRes, writeRes, writes, log,
                   sleepCalls, sleepsDone, extraFault, calls, unwritten,
                   prevWriteFailed, config>>

(***************************************************************************)
(* Actions of run()                                                        *)
(***************************************************************************)
\* print("Starting Powerwall monitoring ..."), before the loop and outside
\* any try block
Start ==
    /\ pc = "start"
    /\ \E o \in Outcomes :
        /\ pc' = IF o = "ok" THEN "poll" ELSE "raised"
        /\ log' = IF o = "ok" THEN Append(log, "starting") ELSE log
        /\ escaped' = IF o = "ok" THEN escaped ELSE o
        /\ extraFault' = NoteFault(o)
        /\ cancelledAt' = NoteCancel(o)
    /\ UNCHANGED <<measurements, battery_level, cycle, rawPower, rawLevel,
                   powerRes, levelRes, writeRes, writes, sleepCalls,
                   sleepsDone>>
    /\ UNCHANGED crossVars

\* get_measurements: the call powerwall.power() (line 67)
PowerPoll ==
    /\ pc = "poll"
    /\ cycle < MaxCycles
    /\ cycle' = cycle + 1
    /\ battery_level' = None
    /\ rawLevel' = None
    /\ levelRes' = "none"
    /\ writeRes' = "none"
    /\ writes' = <<>>
    /\ log' = <<>>
    /\ sleepCalls' = 0
    /\ sleepsDone' = 0
    /\ extraFault' = FALSE
    /\ \/ \E power \in PowerReadings :
            /\ rawPower' = Some(power)
            /\ powerRes' = "none"
            /\ pc' = "normalize"
            /\ UNCHANGED <<cancelledAt, escaped>>
       \/ /\ rawPower' = None
          /\ powerRes' = "fail"
          /\ pc' = GmExcept("raise")
          /\ UNCHANGED <<cancelledAt, escaped>>
       \/ /\ rawPower' = None
          /\ powerRes' = "none"
          /\ pc' = GmExcept("interrupt")
          /\ cancelledAt' = NoteCancel("interrupt")
          /\ UNCHANGED escaped
    /\ calls' = <<"power">>
    /\ prevWriteFailed' = (writeRes = "fail")
    /\ UNCHANGED <<measurements, config, unwritten, initSteps, initFault>>

\* get_measurements: the dict of rounded values, its return and the
\* assignment `measurements = ...` of run() (lines 68-73, 122)
Normalize ==
    /\ pc = "normalize"
    /\ LET res == BuildMeasurement(rawPower[1]) IN
        IF res[1] = "ok"
        THEN /\ measurements' = Some(res[2])
             /\ powerRes' = "ok"
             /\ pc' = AfterGetMeasurements(Some(res[2]))
             /\ unwritten' = unwritten + 1
        ELSE /\ measurements' = measurements
             /\ powerRes' = "fail"
             /\ pc' = GmExcept("raise")
             /\ unwritten' = unwritten
    /\ UNCHANGED <<battery_level, escaped, cycle, rawPower, rawLevel, levelRes,
                   writeRes, writes, log, sleepCalls, sleepsDone, extraFault,
                   cancelledAt>>
    /\ UNCHANGED <<config, calls, prevWriteFailed, initSteps, initFault>>

\* get_measurements: print("Error getting measurements ...") (line 75)
LogSrcErr ==
    /\ pc = "log_src"
    /\ \E o \in Outcomes :
        /\ pc' = IF o = "ok" THEN "return_none" ELSE RunExcept(o)
        /\ log' = IF o = "ok" THEN Append(log, "src_err") ELSE log
        /\ extraFault' = NoteFault(o)
        /\ cancelledAt' = NoteCancel(o)
    /\ UNCHANGED <<measurements, battery_level, escaped, cycle, rawPower,
                   rawLevel, powerRes, levelRes, writeRes, writes, sleepCalls,
                   sleepsDone>>
    /\ UNCHANGED crossVars

\* get_measurements: `return None`, and the assignment `measurements = ...`
\* of run() (lines 76, 122)
ReturnNone ==
    /\ pc = "return_none"
    /\ measurements' = GmExceptReturn
    /\ pc' = AfterGetMeasurements(GmExceptReturn)
    /\ UNCHANGED <<battery_level, escaped, cycle, rawPower, rawLevel, powerRes,
                   levelRes, writeRes, writes, log, sleepCalls, sleepsDone,
                   extraFault, cancelledAt>>
    /\ UNCHANGED crossVars

\* get_battery_level: the call powerwall.level() (line 81)
LevelPoll ==
    /\ pc = "level"
    /\ \/ \E lv \in RawLevelVals :
            /\ rawLevel' = Some(lv)
            /\ levelRes' = "none"
            /\ pc' = "round_level"
            /\ UNCHANGED cancelledAt
       \/ /\ rawLevel' = None
          /\ levelRes' = "fail"
          /\ pc' = LevelExcept("raise")
          /\ UNCHANGED cancelledAt
       \/ /\ rawLevel' = None
          /\ levelRes' = "none"
          /\ pc' = LevelExcept("interrupt")
          /\ cancelledAt' = NoteCancel("interrupt")
    /\ UNCHANGED <<measurements, battery_level, escaped, cycle, rawPower,
                   powerRes, writeRes, writes, log, sleepCalls, sleepsDone,
                   extraFault>>
    /\ calls' = Append(calls, "level")
    /\ UNCHANGED <<config, unwritten, prevWriteFailed, initSteps, initFault>>

\* get_battery_level: round(...) of the value, its return and the
\* assignment `battery_level = ...` of write_to_influxdb (lines 81, 100)
RoundLevel ==
    /\ pc = "round_level"
    /\ IF IsNum(rawLevel[1])
       THEN /\ battery_level' = Some(Round(rawLevel[1][2]))
            /\ levelRes' = "ok"
            /\ pc' = "write"
       ELSE /\ battery_level' = battery_level
            /\ levelRes' = "fail"
            /\ pc' = LevelExcept("raise")
    /\ UNCHANGED <<measurements, escaped, cycle, rawPower, rawLevel, powerRes,
                   writeRes, writes, log, sleepCalls, sleepsDone, extraFault,
                   cancelledAt>>
    /\ UNCHANGED crossVars

\* print("Error getting battery level ...") ; return None
LogBatErr ==
    /\ pc = "log_bat"
    /\ \E o \in Outcomes :
        /\ IF o = "ok"
           THEN /\ battery_level' = None
                /\ log' = Append(log, "bat_err")
                /\ pc' = "write"
           ELSE /\ pc' = WriteExcept(o)
                /\ UNCHANGED <<battery_level, log>>
        /\ extraFault' = NoteFault(o)
        /\ cancelledAt' = NoteCancel(o)
    /\ UNCHANGED <<measurements, escaped, cycle, rawPower, rawLevel, powerRes,
                   levelRes, writeRes, writes, sleepCalls, sleepsDone>>
    /\ UNCHANGED crossVars

\* self.write_api.write(bucket=self.config['influxdb']['bucket'], record=...):
\* the arguments are evaluated first, and when the bucket lookup raises the
\* call is not made
Write ==
    /\ pc = "write"
    /\ IF BucketLookup(config) # "ok"
       THEN /\ pc' = WriteExcept(BucketLookup(config))
            /\ escaped' = NoteEscape(BucketLookup(config), pc')
            /\ UNCHANGED <<writes, writeRes, cancelledAt, calls, unwritten>>
       ELSE /\ writes' = Append(writes, BuildRecord(measurements, battery_level))
            /\ calls' = Append(calls, "write")
            /\ unwritten' = unwritten - 1
            /\ \E o \in Outcomes :
                /\ pc' = IF o = "ok" THEN AfterWriteToInfluxdb ELSE WriteExcept(o)
                /\ writeRes' = IF o = "ok" THEN "ok"
                               ELSE IF o = "raise" THEN "fail" ELSE writeRes
                /\ cancelledAt' = NoteCancel(o)
                /\ escaped' = NoteEscape(o, pc')
    /\ UNCHANGED <<measurements, battery_level, cycle, rawPower, rawLevel,
                   powerRes, levelRes, log, sleepCalls, sleepsDone,
                   extraFault>>
    /\ UNCHANGED <<config, prevWriteFailed, initSteps, initFault>>

\* print("Error writing to InfluxDB ...") ; write_to_influxdb returns
LogSinkErr ==
    /\ pc = "log_sink"
    /\ \E o \in Outcomes :
        /\ pc' = IF o = "ok" THEN AfterWriteToInfluxdb ELSE RunExcept(o)
        /\ log' = IF o = "ok" THEN Append(log, "sink_err") ELSE log
        /\ extraFault' = NoteFault(o)
        /\ cancelledAt' = NoteCancel(o)
    /\ UNCHANGED <<measurements, battery_level, escaped, cycle, rawPower,
                   rawLevel, powerRes, levelRes, writeRes, writes, sleepCalls,
                   sleepsDone>>
    /\ UNCHANGED crossVars

\* print("Measurements recorded at ...")
LogOk ==
    /\ pc = "log_ok"
    /\ \E o \in Outcomes :
        /\ pc' = IF o = "ok" THEN "sleep" ELSE RunExcept(o)
        /\ log' = IF o = "ok" THEN Append(log, "recorded") ELSE log
        /\ extraFault' = NoteFault(o)
        /\ cancelledAt' = NoteCancel(o)
    /\ UNCHANGED <<measurements, battery_level, escaped, cycle, rawPower,
                   rawLevel, powerRes, levelRes, writeRes, writes, sleepCalls,
                   sleepsDone>>
    /\ UNCHANGED crossVars

\* time.sleep(interval) at the end of the try body
Sleep ==
    /\ pc = "sleep"
    /\ sleepCalls' = sleepCalls + 1
    /\ \E o \in Outcomes :
        /\ pc' = IF o = "ok" THEN "poll" ELSE RunExcept(o)
        /\ sleepsDone' = IF o = "ok" THEN sleepsDone + 1 ELSE sleepsDone
        /\ extraFault' = NoteFault(o)
        /\ cancelledAt' = NoteCancel(o)
    /\ UNCHANGED <<measurements, battery_level, escaped, cycle, rawPower,
                   rawLevel, powerRes, levelRes, writeRes, writes, log>>
    /\ UNCHANGED crossVars

\* except KeyboardInterrupt: print("Stopping Powerwall monitoring...") ; break
\* (late: a further KeyboardInterrupt after the line is printed and before
\* `break` has left the clause)
LogStop ==
    /\ pc = "log_stop"
    /\ \E o \in Outcomes, late \in BOOLEAN :
        /\ late => o = "ok"
        /\ pc' = IF late THEN HandlerExcept("interrupt")
                 ELSE IF o = "ok" THEN "returned" ELSE HandlerExcept(o)
        /\ log' = IF o = "ok" THEN Append(log, "stopping") ELSE log
        /\ escaped' = NoteEscape(IF late THEN "interrupt" ELSE o, pc')
        /\ extraFault' = NoteFault(o)
        /\ cancelledAt' = NoteCancel(IF late THEN "interrupt" ELSE o)
    /\ UNCHANGED <<measurements, battery_level, cycle, rawPower, rawLevel,
                   powerRes, levelRes, writeRes, writes, sleepCalls,
                   sleepsDone>>
    /\ UNCHANGED crossVars

\* except Exception: print("Error: ...")
LogError ==
    /\ pc = "log_error"
    /\ \E o \in Outcomes :
        /\ pc' = IF o = "ok" THEN "handler_sleep" ELSE HandlerExcept(o)
        /\ log' = IF o = "ok" THEN Append(log, "error") ELSE log
        /\ escaped' = NoteEscape(o, pc')
        /\ extraFault' = NoteFault(o)
        /\ cancelledAt' = NoteCancel(o)
    /\ UNCHANGED <<measurements, battery_level, cycle, rawPower, rawLevel,
                   powerRes, levelRes, writeRes, writes, sleepCalls,
                   sleepsDone>>
    /\ UNCHANGED crossVars

\* except Exception: ... time.sleep(interval)
HandlerSleep ==
    /\ pc = "handler_sleep"
    /\ sleepCalls' = sleepCalls + 1
    /\ \E o \in Outcomes :
        /\ pc' = IF o = "ok" THEN "poll" ELSE HandlerExcept(o)
        /\ sleepsDone' = IF o = "ok" THEN sleepsDone + 1 ELSE sleepsDone
        /\ escaped' = NoteEscape(o, pc')
        /\ extraFault' = NoteFault(o)
        /\ cancelledAt' = NoteCancel(o)
    /\ UNCHANGED <<measurements, battery_level, cycle, rawPower, rawLevel,
                   powerRes, levelRes, writeRes, writes, log>>
    /\ UNCHANGED crossVars

\* `while True:` after print (line 119) or a sleep has returned: control is
\* outside the try statement, and a KeyboardInterrupt delivered here leaves
\* run() without reaching the `except KeyboardInterrupt` clause
LoopHead ==
    /\ pc = "poll"
    /\ pc' = "raised"
    /\ escaped' = "interrupt"
    /\ cancelledAt' = IF cancelledAt = "none" THEN "loop_head" ELSE cancelledAt
    /\ UNCHANGED <<measurements, battery_level, cycle, rawPower, rawLevel,
                   powerRes, levelRes, writeRes, writes, log, sleepCalls,
                   sleepsDone, extraFault>>
    /\ UNCHANGED crossVars

\* positions of run() just before powerwall.power(), powerwall.level(),
\* write_api.write() and the two time.sleep() calls
BeforeCall == {"poll", "level", "write", "sleep", "handler_sleep"}

\* positions after powerwall.power(), the source-error print and
\* powerwall.level() have returned, before the result is returned and assigned
AfterCall == {"normalize", "return_none", "round_level"}

\* a KeyboardInterrupt delivered inside the try statement (or inside the
\* `except Exception` clause) between two calls: the per-step
\* `except Exception` clauses do not catch it
InterruptBetweenCalls ==
    /\ pc \in BeforeCall \cup AfterCall
    /\ pc' = IF pc = "handler_sleep" THEN HandlerExcept("interrupt")
             ELSE IF pc = "normalize" THEN GmExcept("interrupt")
             ELSE IF pc \in {"level", "round_level"} THEN LevelExcept("interrupt")
             ELSE IF pc = "write" THEN WriteExcept("interrupt")
             ELSE RunExcept("interrupt")
    /\ escaped' = NoteEscape("interrupt", pc')
    /\ cancelledAt' = NoteCancel("interrupt")
    /\ UNCHANGED <<measurements, battery_level, cycle, rawPower, rawLevel,
                   powerRes, levelRes, writeRes, writes, log, sleepCalls,
                   sleepsDone, extraFault>>
    /\ UNCHANGED crossVars

Next ==
    \/ LoadConfig
    \/ InitPowerwall
    \/ InitInfluxdb
    \/ InitWriteApi
    \/ Start
    \/ PowerPoll
    \/ Normalize
    \/ LogSrcErr
    \/ ReturnNone
    \/ LevelPoll
    \/ RoundLevel
    \/ LogBatErr
    \/ Write
    \/ LogSinkErr
    \/ LogOk
    \/ Sleep
    \/ LogStop
    \/ LogError
    \/ HandlerSleep
    \/ LoopHead
    \/ InterruptBetweenCalls

Spec == Init /\ [][Next]_vars

\* the single thread always takes its next step
FairSpec == Spec /\ WF_vars(Next)

(***************************************************************************)
(* Normalization on its own: get_measurements and get_battery_level        *)
(* applied to one reading each                                             *)
(***************************************************************************)
\* site 1500.4, battery -300.5, solar 800.6, load 2000.0
ScenarioReading ==
    [site |-> Num(15004), battery |-> Num(0 - 3005), solar |-> Num(8006), load |-> Num(20000)]

NormReadings ==
    {ScenarioReading} \cup
    {[site |-> Num(a), battery |-> Num(b), solar |-> Num(a + b), load |-> Num(a - b)] :
        a \in (0 - MaxTenth)..MaxTenth, b \in (0 - MaxTenth)..MaxTenth}

NormLevels == {876} \cup (0 - MaxTenth)..MaxTenth

NormInit ==
    /\ pc = "norm_power"
    /\ config = None
    /\ calls = <<>>
    /\ unwritten = 0
    /\ prevWriteFailed = FALSE
    /\ initSteps = <<>>
    /\ initFault = "none"
    /\ rawPower \in {Some(p) : p \in NormReadings}
    /\ rawLevel \in {Some(Num(t)) : t \in NormLevels}
    /\ measurements = None
    /\ battery_level = None
    /\ escaped = "none"
    /\ cycle = 0
    /\ powerRes = "none"
    /\ levelRes = "none"
    /\ writeRes = "none"
    /\ writes = <<>>
    /\ log = <<>>
    /\ sleepCalls = 0
    /\ sleepsDone = 0
    /\ extraFault = FALSE
    /\ cancelledAt = "none"

\* the dict of rounded values of get_measurements
NormPower ==
    /\ pc = "norm_power"
    /\ LET res == BuildMeasurement(rawPower[1]) IN
        /\ res[1] = "ok"
        /\ measurements' = Some(res[2])
    /\ powerRes' = "ok"
    /\ pc' = "norm_level"
    /\ UNCHANGED <<battery_level, escaped, cycle, rawPower, rawLevel, levelRes,
                   writeRes, writes, log, sleepCalls, sleepsDone, extraFault,
                   cancelledAt>>
    /\ UNCHANGED crossVars

\* round(self.powerwall.level())
NormLevel ==
    /\ pc = "norm_level"
    /\ battery_level' = Some(Round(rawLevel[1][2]))
    /\ levelRes' = "ok"
    /\ pc' = "norm_done"
    /\ UNCHANGED <<measurements, escaped, cycle, rawPower, rawLevel, powerRes,
                   writeRes, writes, log, sleepCalls, sleepsDone, extraFault,
                   cancelledAt>>
    /\ UNCHANGED crossVars

NormNext == NormPower \/ NormLevel

NormSpec == NormInit /\ [][NormNext]_vars

TypeOK ==
    /\ pc \in {"load_config", "init_powerwall", "init_influxdb", "init_write_api",
               "init_failed", "norm_power", "norm_level", "norm_done",
               "start", "poll", "normalize", "log_src", "return_none", "level",
               "round_level", "log_bat", "write", "log_sink",
               "log_ok", "sleep", "log_stop", "log_error", "handler_sleep",
               "returned", "raised"}
    /\ cycle \in 0..MaxCycles
    /\ config \in {None} \cup {LoadedConfig(b) : b \in BOOLEAN}
    /\ powerRes \in {"none", "ok", "fail"}
    /\ levelRes \in {"none", "ok", "fail"}
    /\ writeRes \in {"none", "ok", "fail"}
    /\ escaped \in {"none", "raise", "interrupt"}
    /\ Round(0 - 3005) = 0 - 300 /\ Round(15004) = 1500 /\ Round(8006) = 801
    /\ Round(876) = 88 /\ Round(0 - 5) = 0 /\ Round(15) = 2 /\ Round(25) = 2

(***************************************************************************)
(* Properties                                                              *)
(***************************************************************************)
Lines(l) == {l[i] : i \in 1..Len(l)}

\* the Measurement the spec expects for a reading: each field rounded from
\* its own source value
ExpectedMeasurement(raw) ==
    [grid    |-> Round(raw["site"][2]),
     battery |-> Round(raw["battery"][2]),
     solar   |-> Round(raw["solar"][2]),
     home    |-> Round(raw["load"][2])]

AllNumeric(raw) == \A k \in RawKeys : IsNum(raw[k])

Cancelled == cancelledAt # "none"

\* the loaded configuration names the bucket to write to
HasBucket == BucketLookup(config) = "ok"

\* C1: in a cycle whose power poll failed, write_api.write is never called
\* (nor is the battery level polled), and when the failure has been logged
\* get_measurements returns and run() goes straight on to the interval sleep.
C1_FailedPollWritesNothing ==
    /\ [](powerRes = "fail" => /\ writes = <<>>
                               /\ writeRes = "none"
                               /\ levelRes = "none"
                               /\ pc \notin {"level", "log_bat", "write", "log_sink", "log_ok"})
    /\ [][(pc = "log_src" /\ ~extraFault' /\ ~Cancelled') => pc' = "return_none"]_vars
    /\ [][(pc = "return_none" /\ ~Cancelled') => pc' = "sleep"]_vars

C1_Witness ==
    /\ pc = "sleep"
    /\ powerRes = "fail"
    /\ writes = <<>>
    /\ Lines(log) = {"src_err"}

\* C2: in a cycle whose power poll succeeded and whose battery-level poll
\* failed (and in which every print returned), write_api.write has been
\* called exactly once when run() reaches the interval sleep, and its record
\* holds the power point only.
C2_BatteryFailureWritesPowerOnly ==
    (pc = "sleep" /\ powerRes = "ok" /\ levelRes = "fail" /\ ~extraFault) =>
        writes = << <<[series |-> "power", fields |-> ExpectedMeasurement(rawPower[1])]>> >>

\* C3: in a cycle in which both polls succeeded, write_api.write has been
\* called exactly once when run() reaches the interval sleep, with the list
\* [power point, battery point], whose values are the rounded values polled
\* in this same cycle.
C3_BothSeriesInOneWrite ==
    (pc = "sleep" /\ powerRes = "ok" /\ levelRes = "ok") =>
        writes = << <<[series |-> "power", fields |-> ExpectedMeasurement(rawPower[1])],
                      [series |-> "battery", fields |-> [level |-> Round(rawLevel[1][2])]]>> >>

\* C4: with only power-poll, battery-poll and sink-write failures (no print
\* or sleep raising, no KeyboardInterrupt) run() never ends, and every cycle
\* is followed by the next one; run() ends only after a KeyboardInterrupt.
C4_LoopSurvivesCollaboratorFailures ==
    /\ []((pc \in Ended /\ ~extraFault) => Cancelled)
    /\ \A n \in 1..(MaxCycles - 1) :
           (cycle = n) ~> (cycle = n + 1 \/ Cancelled \/ extraFault)

\* the third cycle has begun although the second cycle's poll failed (the
\* local still holds the None it returned) and the third fails again
C4_Witness ==
    /\ cycle >= 3
    /\ pc = "log_src"
    /\ measurements = None
    /\ powerRes = "fail"
    /\ ~extraFault
    /\ ~Cancelled

\* C5: after a cycle whose sink write failed, exactly one interval sleep
\* completes before the next cycle's power poll (and unless a print or sleep
\* raised it is the only sleep begun), and that poll eventually happens
\* unless the run is cancelled or a print/sleep call itself raises.
C5_NextPollAfterWriteFailure ==
    /\ [][(writeRes = "fail" /\ cycle' = cycle + 1) =>
            (sleepsDone = 1 /\ (~extraFault => sleepCalls = 1))]_vars
    /\ \A n \in 1..(MaxCycles - 1) :
           (cycle = n /\ writeRes = "fail") ~> (cycle = n + 1 \/ Cancelled \/ extraFault)

C5_Witness ==
    /\ pc = "poll"
    /\ writeRes = "fail"
    /\ sleepsDone = 1
    /\ ~extraFault
    /\ ~Cancelled

\* C6: a KeyboardInterrupt delivered during the interval sleep takes run() to
\* its KeyboardInterrupt clause, the next step ends run(), and from the
\* signal on no power poll, battery poll or sink write happens.
C6_CancelDuringSleepStops ==
    /\ [][(~Cancelled /\ cancelledAt' = "sleep") => pc' = "log_stop"]_vars
    /\ [][cancelledAt = "sleep" =>
            /\ pc' \in Ended
            /\ UNCHANGED <<cycle, rawPower, rawLevel, powerRes, levelRes, writeRes, writes>>]_vars

C6_Witness ==
    /\ cancelledAt = "sleep"
    /\ pc = "returned"
    /\ "stopping" \in Lines(log)

LoopPoints == {"loop_head", "poll", "level", "write", "sleep", "handler_sleep"}

\* C7: wherever in the loop a KeyboardInterrupt is delivered (head of the
\* loop, power poll, battery poll, sink write, interval sleep, handler
\* sleep), run() handles it in its KeyboardInterrupt clause instead of
\* letting it escape.
C7_SignalAlwaysHandled ==
    [][(~Cancelled /\ cancelledAt' \in LoopPoints) => pc' = "log_stop"]_vars

\* C8: at the end of a cycle the success line has been printed if and only
\* if the power poll and the sink write both succeeded.
C8_SuccessLineOnlyForSuccessfulCycles ==
    (pc = "sleep" /\ ~extraFault) =>
        (("recorded" \in Lines(log)) <=> (powerRes = "ok" /\ writeRes = "ok"))

\* C9: polls and sleeps alternate: exactly one sleep completes between two
\* consecutive power polls, no sleep is begun twice in a cycle unless a print
\* or sleep raised, and the cycle's write call has returned or raised before
\* the sleep begins (or was given up, and logged, for want of a bucket).
C9_PollSleepAlternate ==
    /\ sleepsDone <= 1
    /\ (pc = "poll" /\ cycle >= 1) => sleepsDone = 1
    /\ (pc \in {"sleep", "handler_sleep"}) => sleepsDone = 0
    /\ ~extraFault => sleepCalls <= 1
    /\ (pc = "sleep" /\ powerRes = "ok" /\ ~extraFault) =>
           IF HasBucket
           THEN Len(writes) = 1 /\ writeRes \in {"ok", "fail"}
           ELSE writes = <<>> /\ writeRes = "none" /\ "sink_err" \in Lines(log)

C9_Witness ==
    /\ pc = "poll"
    /\ cycle >= 2
    /\ powerRes = "fail"
    /\ sleepsDone = 1
    /\ sleepCalls = 1

\* C10: a Measurement is all four fields or nothing: when get_measurements
\* has come to a result, it is the four rounded values exactly when all four
\* source values are numbers, otherwise None, and every power point handed
\* to the sink has four fields.
C10_MeasurementAllOrNothing ==
    /\ measurements = None \/ DOMAIN measurements[1] = MFields
    /\ \A i \in 1..Len(writes) :
           /\ writes[i][1].series = "power"
           /\ DOMAIN writes[i][1].fields = MFields
    /\ powerRes # "none" =>
           ((powerRes = "ok") <=> (rawPower # None /\ AllNumeric(rawPower[1])))
    /\ powerRes = "ok" => measurements = <<ExpectedMeasurement(rawPower[1])>>
    /\ (powerRes = "fail" /\ pc = "sleep") => measurements = None

C10_Witness ==
    /\ pc = "sleep"
    /\ cycle >= 2
    /\ powerRes = "fail"
    /\ rawPower # None
    /\ \E k \in RawKeys : IsNum(rawPower[1][k])
    /\ \E k \in RawKeys : rawPower[1][k] = Missing
    /\ measurements = None

\* the rounded value r of a reading of t tenths is within one half of it and
\* does not have the opposite sign
NearestInteger(t, r) ==
    /\ 10 * r - t \in (0 - 5)..5
    /\ t > 0 => r >= 0
    /\ t < 0 => r <= 0
    /\ t = 0 => r = 0

\* C11: normalization rounds each of the four fields, and the battery
\* level, to a nearest integer of its own source value and never flips the
\* sign; 1500.4, -300.5, 800.6, 2000.0 give 1500, -300 or -301, 801, 2000 and
\* a battery level of 87.6 gives 88.
C11_NormalizationRoundsToNearest ==
    /\ pc \in {"norm_level", "norm_done"} =>
        /\ NearestInteger(rawPower[1]["site"][2], measurements[1]["grid"])
        /\ NearestInteger(rawPower[1]["battery"][2], measurements[1]["battery"])
        /\ NearestInteger(rawPower[1]["solar"][2], measurements[1]["solar"])
        /\ NearestInteger(rawPower[1]["load"][2], measurements[1]["home"])
        /\ rawPower[1] = ScenarioReading =>
            /\ measurements[1]["grid"] = 1500
            /\ measurements[1]["battery"] \in {0 - 300, 0 - 301}
            /\ measurements[1]["solar"] = 801
            /\ measurements[1]["home"] = 2000
    /\ pc = "norm_done" =>
        /\ NearestInteger(rawLevel[1][2], battery_level[1])
        /\ rawLevel[1][2] = 876 => battery_level[1] = 88

C11_Witness ==
    /\ pc = "norm_done"
    /\ rawPower[1] = ScenarioReading
    /\ measurements[1] = [grid |-> 1500, battery |-> 0 - 300, solar |-> 801, home |-> 2000]
    /\ rawLevel[1][2] = 876
    /\ battery_level[1] = 88

Count(l, x) == Cardinality({i \in 1..Len(l) : l[i] = x})

\* C12: write_api.write is called at most once per cycle, never more often
\* in total than power polls have succeeded, and every record it is given is
\* built from the values polled in the cycle that writes it.
C12_NoReplayOfFailedWrites ==
    /\ Len(writes) <= 1
    /\ unwritten >= 0
    /\ \A i \in 1..Len(writes) :
        /\ powerRes = "ok"
        /\ rawPower # None
        /\ writes[i][1] = [series |-> "power", fields |-> ExpectedMeasurement(rawPower[1])]
        /\ Len(writes[i]) <= 2
        /\ Len(writes[i]) = 2 =>
            /\ rawLevel # None
            /\ IsNum(rawLevel[1])
            /\ writes[i][2] = [series |-> "battery",
                               fields |-> [level |-> Round(rawLevel[1][2])]]

C12_Witness ==
    /\ prevWriteFailed
    /\ cycle >= 2
    /\ pc = "sleep"
    /\ writeRes = "ok"
    /\ Len(writes) = 1
    /\ unwritten = 0

BothWritten ==
    /\ Len(writes) = 1
    /\ Len(writes[1]) = 2
    /\ writes[1][1].series = "power"
    /\ writes[1][2].series = "battery"

\* C13: whatever happened in earlier cycles, a cycle whose power poll has
\* succeeded goes on to its one write (the configuration naming the bucket,
\* without which no write can succeed), which holds both series unless the
\* battery poll fails (or the run is cancelled or a print raises); a cycle
\* in which both polls and the write succeeded has written both series.
C13_SelfHeals ==
    /\ []((powerRes = "ok" /\ levelRes = "ok" /\ writeRes = "ok") => BothWritten)
    /\ (pc = "level" /\ HasBucket) ~>
           (BothWritten \/ levelRes = "fail" \/ Cancelled \/ extraFault)

C13_Witness ==
    /\ prevWriteFailed
    /\ cycle >= 2
    /\ pc = "sleep"
    /\ powerRes = "ok"
    /\ levelRes = "ok"
    /\ writeRes = "ok"
    /\ BothWritten
    /\ Lines(log) = {"recorded"}

IsPrefix(a, b) == Len(a) <= Len(b) /\ \A i \in 1..Len(a) : a[i] = b[i]

StartupPcs == {"load_config", "init_powerwall", "init_influxdb", "init_write_api"}

\* C14: the constructor steps run in the order configuration, reading
\* source, sink; when one of them fails the constructor raises at that
\* step, later steps are not run, run() is not entered and nothing is ever
\* polled, written or printed; run() is entered only after all steps.
C14_StartupFailureIsFatal ==
    /\ IsPrefix(initSteps, <<"config", "powerwall", "influxdb", "write_api">>)
    /\ initFault # "none" =>
        /\ pc = "init_failed"
        /\ initSteps[Len(initSteps)] = initFault
    /\ pc = "init_failed" =>
        /\ cycle = 0
        /\ calls = <<>>
        /\ writes = <<>>
        /\ log = <<>>
        /\ ~ENABLED Next
    /\ pc \notin (StartupPcs \cup {"init_failed"}) => Len(initSteps) = 4

C14_Witness ==
    /\ pc = "init_failed"
    /\ initFault = "powerwall"
    /\ initSteps = <<"config", "powerwall">>
    /\ ~Cancelled

C15_Order ==
    /\ IsPrefix(calls, <<"power", "level", "write">>)
    /\ Count(calls, "level") <= 1
    /\ Count(calls, "level") = 1 => powerRes = "ok"
    /\ Count(calls, "write") = 1 => (levelRes # "none" /\ Count(calls, "level") = 1)
    /\ powerRes = "fail" => calls = <<"power">>
    /\ pc \in {"sleep", "log_ok"} /\ powerRes = "ok" => Count(calls, "level") = 1

\* C15: a power poll is begun only at the start or after a sleep has
\* completed since the previous one (one power poll per cycle); in a cycle
\* the collaborator calls are a prefix of power poll, battery poll, write:
\* the battery poll at most once and only after a successful power poll,
\* the write only after the battery poll; a cycle whose power poll failed
\* makes no other call.
C15_CallOrderInCycle ==
    /\ [][cycle' = cycle + 1 => (cycle = 0 \/ sleepsDone = 1)]_vars
    /\ [](C15_Order)

C15_Witness ==
    /\ pc = "sleep"
    /\ calls = <<"power", "level", "write">>
    /\ levelRes = "fail"
    /\ cycle >= 2

\* C16: a written record holds the battery point exactly when the battery
\* poll succeeded, whatever the value: 0 is written as 0, and values below 0
\* or above 100 are written rounded, not clamped.
C16_BatterySeriesIffLevelPolled ==
    \A i \in 1..Len(writes) :
        /\ (Len(writes[i]) = 2) <=> (levelRes = "ok")
        /\ levelRes = "ok" =>
            /\ writes[i][2].series = "battery"
            /\ NearestInteger(rawLevel[1][2], writes[i][2].fields.level)

C16_Witness ==
    /\ pc = "sleep"
    /\ rawLevel = Some(Num(0))
    /\ Len(writes) = 1
    /\ Len(writes[1]) = 2
    /\ writes[1][2].fields.level = 0

\* C17: a successful power poll always passes both presence checks and
\* leads to the battery poll, and (in a cycle in which every print returned)
\* by the interval sleep to exactly one write attempt of the polled
\* measurement, whatever its values (all zero, zero and negative mixed).
C17_WriteIndependentOfValues ==
    /\ [][(pc = "normalize" /\ powerRes' = "ok") => pc' = "level"]_vars
    /\ []((pc = "sleep" /\ powerRes = "ok" /\ ~extraFault) =>
            /\ Count(calls, "write") = 1
            /\ Len(writes) = 1
            /\ writes[1][1].fields = measurements[1])

\* the cycle's write raised, or was given up for want of a bucket
SinkWriteFailed == writeRes = "fail" \/ (powerRes = "ok" /\ ~HasBucket)

\* C18: when no print raises, each failure of a cycle has printed exactly
\* one line, of its own kind, by the time of the interval sleep, a line of a
\* kind is printed only for a failure of that kind, the generic error line
\* is not printed, and a cycle whose sink write failed has printed nothing
\* but failure lines.  A write given up because the bucket cannot be read
\* counts as a failure of the sink write.
C18_OneLinePerFailure ==
    /\ Count(log, "src_err") <= 1 /\ Count(log, "bat_err") <= 1 /\ Count(log, "sink_err") <= 1
    /\ Count(log, "src_err") = 1 => powerRes = "fail"
    /\ Count(log, "bat_err") = 1 => levelRes = "fail"
    /\ ~extraFault =>
        /\ Count(log, "sink_err") = 1 => SinkWriteFailed
        /\ Count(log, "error") = 0
        /\ pc = "sleep" =>
            /\ (Count(log, "src_err") = 1) <=> (powerRes = "fail")
            /\ (Count(log, "bat_err") = 1) <=> (levelRes = "fail")
            /\ (Count(log, "sink_err") = 1) <=> SinkWriteFailed
            /\ writeRes = "fail" => Lines(log) \subseteq {"bat_err", "sink_err"}

\* C19: once run()'s generic handler has taken an error, a further error
\* other than a KeyboardInterrupt never leaves run(): the handler prints,
\* sleeps and the loop begins the next cycle.
C19_GenericHandlerNeverRaises ==
    [][(pc \in {"log_error", "handler_sleep"} /\ ~Cancelled') =>
            pc' \in {"handler_sleep", "poll"}]_vars

====
